---- MODULE Spec2Model ----
(***************************************************************************)
(* A model of stk's block-compressed-sparse-row Matrix (src/stk/matrix.py): *)
(* the lightweight validator _validate_matrix, the Matrix constructor and   *)
(* the methods t, view, clone, to, validate and grad of a Matrix whose       *)
(* buffers are torch tensors (shape, device, dtype, storage, gradient).     *)
(***************************************************************************)
EXTENDS Integers, Sequences, FiniteSets, TLC

VARIABLES
    cur,      \* the Matrix the caller holds (NoMat: none yet)
    prov,     \* the call that built cur, and its receiver (t, clone)
    content,  \* per storage: the value written in it
    last,     \* the last call: receiver, arguments, error raised, result
    inp,      \* the arguments handed to the constructor (validator runs)
    mm        \* the last matmul test: sizes, flags, operand and result shapes

vars == <<cur, prov, content, last, inp, mm>>

(***************************************************************************)
(* Bounds of the model.                                                     *)
(***************************************************************************)
MaxDim == 2      \* extents of a logical shape are 1..MaxDim; block sides 1, MaxDim
MaxNnz == 2      \* constructor inputs hold 0..MaxNnz blocks
MaxWrites == 1   \* in-place writes to buffers

Dims == 1..MaxDim
Devices == {"cpu", "cuda"}

(***************************************************************************)
(* Sequences of integers: np.prod, shape[:-1], reversed 2-D size.           *)
(***************************************************************************)
RECURSIVE Prod(_)
Prod(s) == IF s = <<>> THEN 1 ELSE Head(s) * Prod(Tail(s))

Front(s) == SubSeq(s, 1, Len(s) - 1)

Swap2(s) == <<s[2], s[1]>>

(***************************************************************************)
(* torch tensors.  A tensor object has a shape, a device, an element type,  *)
(* a storage (shared by its views) and a gradient (0: None, else the        *)
(* storage of the gradient tensor).  NoneT is Python's None.                *)
(***************************************************************************)
Tensor(shape, dev, dtype, store, grad) ==
    [isNone |-> FALSE, shape |-> shape, dev |-> dev, dtype |-> dtype,
     store |-> store, grad |-> grad]

NoneT ==
    [isNone |-> TRUE, shape |-> <<>>, dev |-> "cpu", dtype |-> "none",
     store |-> 0, grad |-> 0]

Dim(t) == Len(t.shape)
Numel(t) == Prod(t.shape)
IsCuda(t) == t.dev = "cuda"

\* tensor.view(shape) / torch.reshape(tensor, shape): a new tensor object over
\* the same storage; a fresh object carries no gradient of its own.
TensorView(t, shape) == [t EXCEPT !.shape = shape, !.grad = 0]

\* tensor.grad: the gradient tensor (same shape, device, type), or None.
TensorGrad(t) ==
    IF t.grad = 0 THEN NoneT
    ELSE Tensor(t.shape, t.dev, t.dtype, t.grad, 0)

(***************************************************************************)
(* _validate_matrix.  The outcome is the exception raised (kind and which   *)
(* raise statement) or the normalised data.                                 *)
(***************************************************************************)
Raise(kind, msg) == [err |-> kind, msg |-> msg, data |-> NoneT]
Return(data) == [err |-> "none", msg |-> "none", data |-> data]

\* lines 17-18: rank-1 data becomes [numel, 1, 1]
Normalize1D(data) ==
    IF Dim(data) = 1 THEN TensorView(data, <<Numel(data), 1, 1>>) ELSE data

\* lines 28-29: data.view([-1, block_size, block_size])
FlattenBatch(data) ==
    LET bs == data.shape[Dim(data)]
    IN  TensorView(data, <<Numel(data) \div (bs * bs), bs, bs>>)

\* lines 37: shape[-2] % block_size != 0 or shape[-1] % block_size != 0
NotDivisibleMut(shape, bs) ==
    shape[Len(shape)] % bs /= 0
NotDivisible(shape, bs) ==
    shape[Len(shape) - 1] % bs /= 0 \/ shape[Len(shape)] % bs /= 0

\* line 43: np.prod(shape) < data.numel()
OverCapacityMut(shape, data) == Prod(shape) <= Numel(data)
OverCapacity(shape, data) == Prod(shape) < Numel(data)

\* lines 70-71: block_rows = np.prod(shape[:-1]) / block_size (true division);
\* offsets.numel() != block_rows + 1
BadOffsets(shape, bs, offsets) ==
    bs * (Numel(offsets) - 1) /= Prod(Front(shape))

\* lines 76-84
MixedDevicesMut(data, row_indices, column_indices, offsets) ==
    IsCuda(data) /= IsCuda(offsets)
MixedDevices(data, row_indices, column_indices, offsets) ==
    LET is_cuda == IsCuda(data) /\ IsCuda(row_indices)
                   /\ IsCuda(column_indices) /\ IsCuda(offsets)
        is_cpu == ~IsCuda(data) /\ ~IsCuda(row_indices)
                  /\ ~IsCuda(column_indices) /\ ~IsCuda(offsets)
    IN  ~(is_cuda \/ is_cpu)

\* lines 48-102, once the data is [nnz, block, block]
CheckMeta(shape, data, row_indices, column_indices, offsets) ==
    LET bs == data.shape[2]
    IN  IF Dim(row_indices) /= 1 THEN Raise("ValueError", "row_indices_rank")
        ELSE IF Dim(column_indices) /= 1
            THEN Raise("ValueError", "column_indices_rank")
        ELSE IF Dim(offsets) /= 1 THEN Raise("ValueError", "offsets_rank")
        ELSE IF Numel(row_indices) /= data.shape[1]
            THEN Raise("ValueError", "row_indices_len")
        ELSE IF Numel(column_indices) /= data.shape[1]
            THEN Raise("ValueError", "column_indices_len")
        ELSE IF BadOffsets(shape, bs, offsets)
            THEN Raise("ValueError", "offsets_len")
        ELSE IF MixedDevices(data, row_indices, column_indices, offsets)
            THEN Raise("ValueError", "device")
        ELSE IF data.dtype /= "float16" THEN Raise("ValueError", "data_dtype")
        ELSE IF row_indices.dtype /= "int16"
            THEN Raise("ValueError", "row_indices_dtype")
        ELSE IF column_indices.dtype /= "int16"
            THEN Raise("ValueError", "column_indices_dtype")
        ELSE IF offsets.dtype /= "int32"
            THEN Raise("ValueError", "offsets_dtype")
        ELSE Return(data)

ValidateMatrix(shape, data0, row_indices, column_indices, offsets) ==
    IF data0.isNone THEN Raise("AttributeError", "none_dim")       \* line 17
    ELSE LET data1 == Normalize1D(data0)
    IN  IF Dim(data1) < 2 THEN Raise("IndexError", "data_shape")   \* line 21
        ELSE IF data1.shape[Dim(data1) - 1] /= data1.shape[Dim(data1)]
            THEN Raise("ValueError", "square")
        ELSE LET data == FlattenBatch(data1)
                 block_size == data.shape[2]
        IN  IF Dim(data) /= 3 THEN Raise("ValueError", "data_rank")
            ELSE IF Len(shape) < 2 THEN Raise("IndexError", "shape") \* line 37
            ELSE IF NotDivisible(shape, block_size)
                THEN Raise("ValueError", "divisible")
            ELSE IF OverCapacity(shape, data)
                THEN Raise("ValueError", "capacity")
            ELSE CheckMeta(shape, data, row_indices, column_indices, offsets)

(***************************************************************************)
(* Matrix objects and Matrix.__init__.                                      *)
(***************************************************************************)
Mat(size, data, row_indices, column_indices, offsets, transposed) ==
    [size |-> size, data |-> data, row_indices |-> row_indices,
     column_indices |-> column_indices, offsets |-> offsets,
     transposed |-> transposed]

NoMat == Mat(<<>>, NoneT, NoneT, NoneT, NoneT, FALSE)

\* lines 114-135: the outcome is the exception of the validator, or the
\* new Matrix, never transposed.
MatrixInit(size, data, row_indices, column_indices, offsets, validate) ==
    LET v == IF validate
             THEN ValidateMatrix(size, data, row_indices, column_indices, offsets)
             ELSE Return(data)
    IN  [err |-> v.err, msg |-> v.msg,
         mat |-> IF v.err = "none"
                 THEN Mat(size, v.data, row_indices, column_indices, offsets, FALSE)
                 ELSE NoMat]

(***************************************************************************)
(* The methods of Matrix, as functions of the receiver: the outcome is the  *)
(* exception raised or the Matrix returned.  f is a sequence of storages    *)
(* not in use: what a copy allocates.                                       *)
(***************************************************************************)
Fail(kind, msg) == [err |-> kind, msg |-> msg, mat |-> NoMat]

\* line 179: out._size = torch.Size((self._size[1], self._size[0]))
TSizeMut(m) == m.size
TSize(m) == Swap2(m.size)

\* lines 168-180
TOut(m) ==
    IF Len(m.size) /= 2 THEN Fail("ValueError", "t_dim")
    ELSE LET r == MatrixInit(m.size, m.data, m.row_indices,
                             m.column_indices, m.offsets, TRUE)
         IN  IF r.err /= "none" THEN r
             ELSE [r EXCEPT !.mat.transposed = ~m.transposed,
                            !.mat.size = TSize(m)]

\* lines 185-186
IsContiguousMut(m) == TRUE
IsContiguous(m) == ~m.transposed

\* lines 242-256
ViewOutMut(m, shape) ==
    IF ~IsContiguous(m) THEN Fail("AssertionError", "contiguous")
    ELSE IF shape[Len(shape)] /= m.size[Len(m.size)]
        THEN Fail("ValueError", "compressed_dim")
    ELSE IF Prod(shape) /= Prod(m.size) THEN Fail("ValueError", "numel")
    ELSE MatrixInit(m.size, m.data, m.row_indices, m.column_indices,
                    m.offsets, TRUE)
ViewOut(m, shape) ==
    IF ~IsContiguous(m) THEN Fail("AssertionError", "contiguous")
    ELSE IF shape[Len(shape)] /= m.size[Len(m.size)]
        THEN Fail("ValueError", "compressed_dim")
    ELSE IF Prod(shape) /= Prod(m.size) THEN Fail("ValueError", "numel")
    ELSE MatrixInit(shape, m.data, m.row_indices, m.column_indices,
                    m.offsets, TRUE)

\* tensor.clone(): a new tensor over a fresh storage
TensorClone(t, store) == Tensor(t.shape, t.dev, t.dtype, store, 0)

\* lines 160-166
CloneOut(m, f) ==
    MatrixInit(m.size, TensorClone(m.data, f[1]),
               TensorClone(m.row_indices, f[2]),
               TensorClone(m.column_indices, f[3]),
               TensorClone(m.offsets, f[4]), TRUE)

\* tensor.to(device): the tensor itself when it is there already, else a copy
TensorTo(t, dev, store) ==
    IF t.dev = dev THEN t ELSE Tensor(t.shape, dev, t.dtype, store, 0)

\* lines 147-155
ToOut(m, dev, f) ==
    [m EXCEPT !.data = TensorTo(m.data, dev, f[1]),
              !.row_indices = TensorTo(m.row_indices, dev, f[2]),
              !.column_indices = TensorTo(m.column_indices, dev, f[3]),
              !.offsets = TensorTo(m.offsets, dev, f[4])]

\* lines 258-271
GradOut(m) ==
    LET size == IF ~IsContiguous(m) THEN Swap2(m.size) ELSE m.size
        r == MatrixInit(size, TensorGrad(m.data), m.row_indices,
                        m.column_indices, m.offsets, TRUE)
    IN  IF r.err /= "none" THEN r
        ELSE IF IsContiguous(m) THEN r
        ELSE TOut(r.mat)

(***************************************************************************)
(* The record of a call: the receiver as it was before the call and the     *)
(* call that had built it, the shape argument, the exception raised, and    *)
(* the Matrix returned.                                                     *)
(***************************************************************************)
Prov(op, src) == [op |-> op, src |-> src]

NoProv == Prov("none", NoMat)

Call(op, pre, from, arg, err, msg, res) ==
    [op |-> op, pre |-> pre, from |-> from, arg |-> arg,
     err |-> err, msg |-> msg, res |-> res]

NoCall == Call("none", NoMat, NoProv, <<>>, "none", "none", NoMat)

\* the record of a matmul test: the operation, m, k, n and the block side,
\* the transpose flags, the operand shapes handed to the operation, the
\* exception raised and the shape of the (densified) result
MatMul(op, mkn, bs, ta, tb, lhs, rhs, err, out) ==
    [op |-> op, mkn |-> mkn, bs |-> bs, trans_a |-> ta, trans_b |-> tb,
     lhs |-> lhs, rhs |-> rhs, err |-> err, out |-> out]

NoMatMul == MatMul("none", <<>>, 0, FALSE, FALSE, <<>>, <<>>, "none", <<>>)

Input(shape, data, row_indices, column_indices, offsets) ==
    [shape |-> shape, data |-> data, row_indices |-> row_indices,
     column_indices |-> column_indices, offsets |-> offsets]

NoInput == Input(<<>>, NoneT, NoneT, NoneT, NoneT)

(***************************************************************************)
(* Constructor arguments for the validator runs: any 2-D shape, data of     *)
(* rank 1, 2 or 3, index and offset arrays of any length, one of them       *)
(* possibly of rank 2, buffers on either device, of right or wrong type.    *)
(***************************************************************************)
Shapes2 == {<<r, c>> : r \in Dims, c \in Dims}

\* block sides: the smallest and the largest extent
Blocks == {1, MaxDim}

DataShapes ==
    {<<n>> : n \in 0..MaxNnz}
    \cup {<<a, b>> : a \in Blocks, b \in Blocks}
    \cup {<<n, a, b>> : n \in 0..MaxNnz, a \in Blocks, b \in Blocks}

Buffers == {"data", "row_indices", "column_indices", "offsets"}

\* which of the four buffers lie on "cuda", have a wrong element type, have
\* rank 2
CudaCases == {{}, Buffers, {"data"}, {"column_indices"}}
TypeCases == {{}, Buffers, {"data"}, {"row_indices"}, {"offsets"}}
RankCases == {{}} \cup {{b} : b \in Buffers \ {"data"}}

GoodType(b) ==
    CASE b = "data" -> "float16"
      [] b = "offsets" -> "int32"
      [] OTHER -> "int16"
BadType(b) ==
    CASE b = "data" -> "float32"
      [] b = "offsets" -> "int64"
      [] OTHER -> "int32"

\* buffer b of an argument list: its shape, with cuda/bad/rank2 the cases chosen
ArgTensor(b, shape, cuda, bad, rank2, store) ==
    Tensor(IF b \in rank2 THEN shape \o <<1>> ELSE shape,
           IF b \in cuda THEN "cuda" ELSE "cpu",
           IF b \in bad THEN BadType(b) ELSE GoodType(b),
           store, 0)

ValidatorInput(shape, ds, nr, nc, no, cuda, bad, rank2) ==
    Input(shape,
          ArgTensor("data", ds, cuda, bad, rank2, 1),
          ArgTensor("row_indices", <<nr>>, cuda, bad, rank2, 2),
          ArgTensor("column_indices", <<nc>>, cuda, bad, rank2, 3),
          ArgTensor("offsets", <<no>>, cuda, bad, rank2, 4))

(***************************************************************************)
(* Storages.  Buffers are allocated four at a time (1..4 or 5..8: the       *)
(* receiver of a call holds one group, a copy takes the other); gradients   *)
(* take 9 or 10.                                                            *)
(***************************************************************************)
StoreIds == 1..10

(***************************************************************************)
(* Validator runs: Matrix(shape, data, row_indices, column_indices,         *)
(* offsets) on arguments drawn at the start.                                *)
(***************************************************************************)
InitV ==
    /\ cur = NoMat
    /\ prov = NoProv
    /\ content = [s \in StoreIds |-> 0]
    /\ last = NoCall
    /\ mm = NoMatMul
    /\ \E shape \in Shapes2, ds \in DataShapes,
          nr \in 0..MaxNnz, nc \in 0..MaxNnz, no \in 0..(MaxDim + 1),
          cuda \in CudaCases, bad \in TypeCases, rank2 \in RankCases :
            inp = ValidatorInput(shape, ds, nr, nc, no, cuda, bad, rank2)

\* what a call that returns a Matrix or raises leaves behind
Returns(op, arg, r) ==
    /\ last' = Call(op, IF op = "new" THEN NoMat ELSE cur,
                    IF op = "t" THEN prov ELSE NoProv,
                    arg, r.err, r.msg, r.mat)
    /\ cur' = IF r.err = "none" THEN r.mat ELSE cur
    /\ prov' = IF r.err = "none"
               THEN Prov(op, IF op \in {"t", "clone"} THEN cur ELSE NoMat)
               ELSE prov
    /\ UNCHANGED mm

Construct ==
    /\ last.op = "none"
    /\ Returns("new", inp.shape,
               MatrixInit(inp.shape, inp.data, inp.row_indices,
                          inp.column_indices, inp.offsets, TRUE))
    /\ UNCHANGED <<content, inp>>

NextV == Construct

SpecV == InitV /\ [][NextV]_vars

(***************************************************************************)
(* A Matrix in use: construction, the methods, and what autograd does to    *)
(* the buffers.  The caller holds one Matrix; the result of a call          *)
(* replaces it (a = a.t()).                                                 *)
(***************************************************************************)
\* shape arguments of view(): 1 to 3 extents
ViewShapes ==
    {<<a>> : a \in Dims} \cup Shapes2
    \cup {<<a, b, c>> : a \in Dims, b \in Dims, c \in Dims}

Init ==
    /\ cur = NoMat
    /\ prov = NoProv
    /\ content = [s \in StoreIds |-> 0]
    /\ last = NoCall
    /\ inp = NoInput
    /\ mm = NoMatMul

\* the storages a Matrix uses
StoresOf(m) ==
    {m.data.store, m.row_indices.store, m.column_indices.store,
     m.offsets.store, m.data.grad} \ {0}

\* four storages cur does not use
Fresh4 ==
    IF StoresOf(cur) \cap {1, 2, 3, 4} = {} THEN <<1, 2, 3, 4>>
    ELSE <<5, 6, 7, 8>>

\* a gradient storage cur does not use
FreshGrad == IF 9 \in StoresOf(cur) THEN 10 ELSE 9

\* the buffers of m copied into the fresh storages f
Copied(m, f) ==
    [s \in StoreIds |->
        IF s = f[1] THEN content[m.data.store]
        ELSE IF s = f[2] THEN content[m.row_indices.store]
        ELSE IF s = f[3] THEN content[m.column_indices.store]
        ELSE IF s = f[4] THEN content[m.offsets.store]
        ELSE content[s]]

\* Matrix(shape, data, row_indices, column_indices, offsets) on host buffers
\* as to_sparse lays them out: n blocks of side bs, one index pair per
\* block, one offset per block row plus one.  The caller builds its Matrix
\* once and works on what the methods return.
New(shape, bs, n) ==
    /\ cur = NoMat
    /\ LET f == Fresh4
           r == MatrixInit(shape,
                           Tensor(<<n, bs, bs>>, "cpu", "float16", f[1], 0),
                           Tensor(<<n>>, "cpu", "int16", f[2], 0),
                           Tensor(<<n>>, "cpu", "int16", f[3], 0),
                           Tensor(<<(shape[1] \div bs) + 1>>, "cpu", "int32",
                                  f[4], 0),
                           TRUE)
       IN  Returns("new", shape, r)
    /\ UNCHANGED <<content, inp>>

T ==
    /\ cur /= NoMat
    /\ Returns("t", <<>>, TOut(cur))
    /\ UNCHANGED <<content, inp>>

View(shape) ==
    /\ cur /= NoMat
    /\ Returns("view", shape, ViewOut(cur, shape))
    /\ UNCHANGED <<content, inp>>

Clone ==
    /\ cur /= NoMat
    /\ LET r == CloneOut(cur, Fresh4)
       IN  /\ Returns("clone", <<>>, r)
           /\ content' = IF r.err = "none" THEN Copied(cur, Fresh4)
                         ELSE content
    /\ UNCHANGED inp

Grad ==
    /\ cur /= NoMat
    /\ Returns("grad", <<>>, GradOut(cur))
    /\ UNCHANGED <<content, inp>>

\* m.to(device): in place, returns self; a Matrix whose buffers moved no
\* longer shares them with the Matrix it was made from.
To(dev) ==
    /\ cur /= NoMat
    /\ LET out == ToOut(cur, dev, Fresh4)
       IN  /\ last' = Call("to", cur, NoProv, <<>>, "none", "none", out)
           /\ cur' = out
           /\ prov' = IF out = cur THEN prov ELSE Prov("to", NoMat)
           /\ content' = IF out = cur THEN content ELSE Copied(cur, Fresh4)
    /\ UNCHANGED <<inp, mm>>

\* m.validate(): raises or returns nothing
Validate ==
    /\ cur /= NoMat
    /\ LET v == ValidateMatrix(cur.size, cur.data, cur.row_indices,
                               cur.column_indices, cur.offsets)
       IN  last' = Call("validate", cur, NoProv, <<>>, v.err, v.msg, NoMat)
    /\ UNCHANGED <<cur, prov, content, inp, mm>>

\* autograd leaves a gradient on the data of cur
Backward ==
    /\ cur /= NoMat
    /\ cur.data.grad = 0
    /\ cur' = [cur EXCEPT !.data.grad = FreshGrad]
    /\ content' = [content EXCEPT ![FreshGrad] = 0]
    /\ last' = Call("backward", cur, NoProv, <<>>, "none", "none", NoMat)
    /\ UNCHANGED <<prov, inp, mm>>

Next ==
    \/ \E shape \in Shapes2, bs \in Blocks, n \in 0..MaxNnz : New(shape, bs, n)
    \/ T
    \/ \E shape \in ViewShapes : View(shape)
    \/ Clone
    \/ \E dev \in Devices : To(dev)
    \/ Validate

Spec == Init /\ [][Next]_vars

(***************************************************************************)
(* Gradients: autograd fills the gradient of the data, grad wraps it.       *)
(***************************************************************************)
NextGrad ==
    \/ \E shape \in Shapes2, bs \in Blocks, n \in 0..MaxNnz : New(shape, bs, n)
    \/ T
    \/ \E shape \in ViewShapes : View(shape)
    \/ \E dev \in Devices : To(dev)
    \/ Backward
    \/ Grad

SpecGrad == Init /\ [][NextGrad]_vars

(***************************************************************************)
(* Copies and in-place writes: the caller writes into the buffers of the    *)
(* Matrix it holds (m.data.zero_(), m.offsets[0] = 1).                      *)
(***************************************************************************)
\* the number of in-place writes so far (each write leaves its number)
Written ==
    LET vals == {content[s] : s \in StoreIds}
    IN  CHOOSE x \in vals : \A y \in vals : y <= x

Write(b) ==
    /\ cur /= NoMat
    /\ Written < MaxWrites
    /\ content' = [content EXCEPT ![cur[b].store] = Written + 1]
    /\ last' = Call("write", cur, prov, <<>>, "none", "none", NoMat)
    /\ UNCHANGED <<cur, prov, inp, mm>>

NextClone ==
    \/ \E shape \in Shapes2, bs \in Blocks, n \in 0..MaxNnz : New(shape, bs, n)
    \/ T
    \/ Clone
    \/ \E b \in Buffers : Write(b)

SpecClone == Init /\ [][NextClone]_vars

(***************************************************************************)
(* The matmul tests (linear_ops_test.py).  The operations themselves        *)
(* (stk.ops.dsd, dds, dss, sdd, ssd, to_sparse, to_dense) are described by  *)
(* their contract: 2-D operands, equal contraction dimensions, a result of  *)
(* shape (left rows, right columns).                                        *)
(***************************************************************************)
Ops == {"dsd", "dds", "dss", "sdd", "ssd"}

\* which operand of an operation is a sparse Matrix
SparseLeft(op) == op \in {"dsd", "ssd", "dss"}
SparseRight(op) == op \in {"dds", "dss"}

\* _dense(rows, cols) (lines 35-37): a dense operand on the accelerator
Dense(shape) == Tensor(shape, "cuda", "float16", 0, 0)

\* torch's dense.t(): the transposed view
DenseT(x) == TensorView(x, Swap2(x.shape))

\* stk.ops.to_sparse(dense, blocking): every tile kept, in row-major order
ToSparse(shape, bs) ==
    LET n == (shape[1] \div bs) * (shape[2] \div bs)
    IN  MatrixInit(shape,
                   Tensor(<<n, bs, bs>>, "cpu", "float16", 1, 0),
                   Tensor(<<n>>, "cpu", "int16", 2, 0),
                   Tensor(<<n>>, "cpu", "int16", 3, 0),
                   Tensor(<<(shape[1] \div bs) + 1>>, "cpu", "int32", 4, 0),
                   TRUE)

\* _dense_and_sparse (lines 27-32): the sparse operand, moved to the device
DenseAndSparse(shape, bs) ==
    LET r == ToSparse(shape, bs)
    IN  IF r.err /= "none" THEN r
        ELSE [r EXCEPT !.mat = ToOut(r.mat, "cuda", <<5, 6, 7, 8>>)]

\* the shape of the product of operands of shapes ls and rs
MatMulShape(ls, rs) ==
    IF Len(ls) /= 2 \/ Len(rs) /= 2
    THEN [err |-> "UnsupportedRankError", out |-> <<>>]
    ELSE IF ls[2] /= rs[1] THEN [err |-> "ShapeError", out |-> <<>>]
    ELSE [err |-> "none", out |-> <<ls[1], rs[2]>>]

\* the operations with a sparse result: the product restricted to the
\* topology, which to_dense gives back at the topology's logical shape
SparseOut(ls, rs, topo) ==
    LET r == MatMulShape(ls, rs)
    IN  IF r.err /= "none" THEN r
        ELSE IF r.out /= topo.size THEN [err |-> "ShapeError", out |-> <<>>]
        ELSE [err |-> "none", out |-> topo.size]

\* lines 40-54: an operand, passed through t() when its flag is set; the
\* outcome is the exception of t() or the shape handed to the operation
Operand(sparse, shape, bs, trans) ==
    IF sparse
    THEN LET s == DenseAndSparse(shape, bs)
             r == IF s.err = "none" /\ trans THEN TOut(s.mat) ELSE s
         IN  [err |-> r.err, shape |-> r.mat.size]
    ELSE LET d == Dense(shape)
         IN  [err |-> "none",
              shape |-> IF trans THEN DenseT(d).shape ELSE d.shape]

\* lines 60-147: one test of one operation
LinearOpTest(op, m, k, n, bs, trans_a, trans_b) ==
    /\ mm = NoMatMul
    /\ \E a \in {Operand(SparseLeft(op),
                          IF trans_a THEN <<k, m>> ELSE <<m, k>>, bs, trans_a)},
          b \in {Operand(SparseRight(op),
                          IF trans_b THEN <<n, k>> ELSE <<k, n>>, bs, trans_b)},
          topo \in {DenseAndSparse(<<m, n>>, bs)} :
          \E r \in {IF op \in {"sdd", "ssd"}
                     THEN SparseOut(a.shape, b.shape, topo.mat)
                     ELSE MatMulShape(a.shape, b.shape)} :
              \E err \in {IF a.err /= "none" THEN a.err
                           ELSE IF b.err /= "none" THEN b.err
                           ELSE IF topo.err /= "none" THEN topo.err
                           ELSE r.err} :
                  mm' = MatMul(op, <<m, k, n>>, bs, trans_a, trans_b,
                               a.shape, b.shape, err,
                               IF err = "none" THEN r.out ELSE <<>>)
    /\ UNCHANGED <<cur, prov, content, last, inp>>

NextMM ==
    \E op \in Ops, bs \in Blocks, ta \in BOOLEAN, tb \in BOOLEAN :
        \E m \in Dims, k \in Dims, n \in Dims :
            /\ m % bs = 0 /\ k % bs = 0 /\ n % bs = 0
            /\ LinearOpTest(op, m, k, n, bs, ta, tb)

SpecMM == Init /\ [][NextMM]_vars

(***************************************************************************)
(* Properties of the methods.                                               *)
(***************************************************************************)
\* the four buffers of a are the buffers of b (same storages, not copies)
SameBuffers(a, b) ==
    /\ a.data.store = b.data.store
    /\ a.row_indices.store = b.row_indices.store
    /\ a.column_indices.store = b.column_indices.store
    /\ a.offsets.store = b.offsets.store

\* the block side of a Matrix (Matrix.blocking)
Blocking(m) == m.data.shape[2]

\* C1: transpose involution.  When t() is called on a Matrix that t() made
\* from M, the call completes and returns a Matrix with M's logical shape,
\* M's transposed flag and M's four buffers.
C1_TransposeInvolution ==
    (last.op = "t" /\ last.from.op = "t") =>
        /\ last.err = "none"
        /\ last.res.size = last.from.src.size
        /\ last.res.transposed = last.from.src.transposed
        /\ SameBuffers(last.res, last.from.src)

\* C2: t() on a Matrix with a 2-D logical shape (r, c), transposed or not,
\* returns a Matrix with the flag negated, the shape (c, r) and the same
\* four buffers; on a shape of more than 2 dimensions it raises and
\* returns no Matrix.
C2_Transpose ==
    last.op = "t" =>
        /\ Len(last.pre.size) = 2 =>
              /\ last.err = "none"
              /\ last.res.transposed = ~last.pre.transposed
              /\ last.res.size = <<last.pre.size[2], last.pre.size[1]>>
              /\ SameBuffers(last.res, last.pre)
        /\ Len(last.pre.size) > 2 =>
              /\ last.err /= "none"
              /\ last.res = NoMat

\* the case of C4: view(new_shape) on a non-transposed Matrix, the trailing
\* dimension and the element count kept
ViewKeeps ==
    /\ last.op = "view"
    /\ ~last.pre.transposed
    /\ last.arg[Len(last.arg)] = last.pre.size[Len(last.pre.size)]
    /\ Prod(last.arg) = Prod(last.pre.size)

\* view returned a non-transposed Matrix of shape new_shape over the
\* receiver's buffers
ViewDone ==
    /\ last.err = "none"
    /\ last.res.size = last.arg
    /\ ~last.res.transposed
    /\ SameBuffers(last.res, last.pre)

\* C4 as stated, for a new_shape of two dimensions or more: view succeeds
\* whenever the trailing dimension and the element count are kept, with no
\* condition on the second-to-last dimension.
C4_ViewUnconditional == (ViewKeeps /\ Len(last.arg) >= 2) => ViewDone

\* C4, amended: view succeeds whenever the trailing dimension and the
\* element count are kept and new_shape has at least two dimensions, the
\* second-to-last divisible by the block size.
C4_ViewDivisible ==
    (/\ ViewKeeps
     /\ Len(last.arg) >= 2
     /\ last.arg[Len(last.arg) - 1] % Blocking(last.pre) = 0) => ViewDone

\* a 2-D Matrix was viewed as 3-D
C4_Witness ==
    /\ ViewKeeps
    /\ Len(last.pre.size) = 2
    /\ Len(last.arg) = 3
    /\ last.err = "none"

\* C5: view() on a transposed Matrix fails for every new_shape: it raises
\* the assertion error, which neither the trailing-dimension check nor the
\* element-count check raises, returns no Matrix and leaves the receiver
\* as it was.
C5_ViewTransposedFails ==
    /\ (last.op = "view" /\ last.pre.transposed) =>
          /\ last.err = "AssertionError"
          /\ last.res = NoMat
          /\ cur = last.pre
    /\ (last.op = "view" /\ last.msg \in {"compressed_dim", "numel"}) =>
          last.err \notin {"none", "AssertionError"}

\* view(current shape) on a transposed Matrix
C5_Witness ==
    /\ last.op = "view"
    /\ last.pre.transposed
    /\ last.arg = last.pre.size

\* C9: grad on a Matrix whose data has a gradient returns a Matrix of the
\* same logical shape and transposed flag, over the gradient buffer and
\* the receiver's row_indices, column_indices and offsets; on a Matrix
\* whose data has no gradient it reports absence and raises nothing.
C9_Grad ==
    last.op = "grad" =>
        IF last.pre.data.grad /= 0
        THEN /\ last.err = "none"
             /\ last.res.size = last.pre.size
             /\ last.res.transposed = last.pre.transposed
             /\ last.res.data.store = last.pre.data.grad
             /\ last.res.row_indices.store = last.pre.row_indices.store
             /\ last.res.column_indices.store = last.pre.column_indices.store
             /\ last.res.offsets.store = last.pre.offsets.store
        ELSE /\ last.err = "none"
             /\ last.res = NoMat

\* the four storages of b are not among the storages of a
FreshBuffers(a, b) ==
    {b.data.store, b.row_indices.store, b.column_indices.store,
     b.offsets.store} \cap StoresOf(a) = {}

\* the buffers of a and b hold the same values
EqualContent(a, b) ==
    /\ content[a.data.store] = content[b.data.store]
    /\ content[a.row_indices.store] = content[b.row_indices.store]
    /\ content[a.column_indices.store] = content[b.column_indices.store]
    /\ content[a.offsets.store] = content[b.offsets.store]

\* C3: clone() on any Matrix, transposed or not, succeeds and returns a
\* Matrix of the same logical shape and the same transposed flag over
\* fresh buffers equal in content to the receiver's; a later write into
\* the clone's buffers leaves the receiver's buffers as they were.
C3_Clone ==
    /\ last.op = "clone" =>
          /\ last.err = "none"
          /\ last.res.size = last.pre.size
          /\ last.res.transposed = last.pre.transposed
          /\ FreshBuffers(last.pre, last.res)
          /\ EqualContent(last.pre, last.res)
    /\ (last.op = "write" /\ last.from.op = "clone") =>
          \A s \in StoresOf(last.from.src) : content[s] /= Written

\* C10: matmul shape law.  For every pair of transpose flags and every
\* (m, k, n) divisible by the block size, each operation yields a 2-D result
\* of shape (m, n), the contraction dimensions both being k once the
\* flagged operands went through t().
C10_MatmulShape ==
    mm.op /= "none" =>
        /\ mm.err = "none"
        /\ Len(mm.out) = 2
        /\ mm.out = <<mm.mkn[1], mm.mkn[3]>>
        /\ mm.out = <<mm.lhs[1], mm.rhs[2]>>
        /\ mm.lhs[2] = mm.mkn[2]
        /\ mm.rhs[1] = mm.mkn[2]

\* dsd with a transposed, non-square sparse operand
C10_Witness ==
    /\ mm.op = "dsd"
    /\ mm.trans_a
    /\ mm.mkn[1] /= mm.mkn[2]
    /\ mm.err = "none"

(***************************************************************************)
(* Properties of the validator, on the constructor's arguments inp.  The    *)
(* eight invariants of a Matrix, as its documentation numbers them.         *)
(***************************************************************************)
\* the block side and the number of blocks the data stands for
BlockSide(d) == IF Dim(d) = 1 THEN 1 ELSE d.shape[Dim(d)]
BlockCount(d) == Numel(d) \div (BlockSide(d) * BlockSide(d))

\* 1: blocks are square
Inv1(i) == Dim(i.data) = 1 \/ i.data.shape[Dim(i.data) - 1] = i.data.shape[Dim(i.data)]
\* 2: the row and column extents are divisible by the block side
Inv2(i) ==
    /\ i.shape[Len(i.shape) - 1] % BlockSide(i.data) = 0
    /\ i.shape[Len(i.shape)] % BlockSide(i.data) = 0
\* 3: nnz * B * B <= product(logical_shape)
Inv3(i) ==
    BlockCount(i.data) * BlockSide(i.data) * BlockSide(i.data) <= Prod(i.shape)
\* 4: the indices and offsets are rank-1
Inv4(i) ==
    Dim(i.row_indices) = 1 /\ Dim(i.column_indices) = 1 /\ Dim(i.offsets) = 1
\* 5: one row index and one column index per block
Inv5(i) ==
    /\ Numel(i.row_indices) = BlockCount(i.data)
    /\ Numel(i.column_indices) = BlockCount(i.data)
\* 6: one offset per block row, plus one
Inv6(i) ==
    \E block_rows \in 0..Prod(i.shape) :
        /\ block_rows * BlockSide(i.data) = Prod(Front(i.shape))
        /\ Numel(i.offsets) = block_rows + 1
\* 7: the four buffers are on one device
Inv7(i) ==
    \A d \in {i.row_indices.dev, i.column_indices.dev, i.offsets.dev} :
        d = i.data.dev
\* 8: float16 blocks, int16 indices, int32 offsets
Inv8(i) ==
    /\ i.data.dtype = "float16"
    /\ i.row_indices.dtype = "int16"
    /\ i.column_indices.dtype = "int16"
    /\ i.offsets.dtype = "int32"

Holds(k, i) ==
    CASE k = 1 -> Inv1(i) [] k = 2 -> Inv2(i) [] k = 3 -> Inv3(i)
      [] k = 4 -> Inv4(i) [] k = 5 -> Inv5(i) [] k = 6 -> Inv6(i)
      [] k = 7 -> Inv7(i) [] k = 8 -> Inv8(i)

\* the lowest-numbered invariant the arguments violate (0: none)
FirstViolated(i) ==
    LET bad == {k \in 1..8 : ~Holds(k, i)}
    IN  IF bad = {} THEN 0 ELSE CHOOSE k \in bad : \A j \in bad : k <= j

\* the messages of the errors raised for each invariant
Messages(k) ==
    CASE k = 1 -> {"square"}
      [] k = 2 -> {"divisible"}
      [] k = 3 -> {"capacity"}
      [] k = 4 -> {"row_indices_rank", "column_indices_rank", "offsets_rank"}
      [] k = 5 -> {"row_indices_len", "column_indices_len"}
      [] k = 6 -> {"offsets_len"}
      [] k = 7 -> {"device"}
      [] k = 8 -> {"data_dtype", "row_indices_dtype", "column_indices_dtype",
                   "offsets_dtype"}
      [] OTHER -> {"none"}

\* C6: the validator checks invariants 1 to 8 in that order and stops at the
\* first failure: the error raised is the one of the lowest-numbered violated
\* invariant; it succeeds exactly when none is violated, and the Matrix built
\* holds row_indices, column_indices and offsets as they were passed.
C6_FirstFailure ==
    last.op = "new" =>
        /\ (last.err = "none") = (FirstViolated(inp) = 0)
        /\ last.msg \in Messages(FirstViolated(inp))
        /\ last.err = "none" =>
              /\ cur.row_indices = inp.row_indices
              /\ cur.column_indices = inp.column_indices
              /\ cur.offsets = inp.offsets

\* arguments violating invariants 2, 5 and 8 at once
C6_Witness ==
    /\ last.op = "new"
    /\ ~Inv2(inp) /\ ~Inv5(inp) /\ ~Inv8(inp)
    /\ FirstViolated(inp) = 2
    /\ last.msg = "divisible"

\* the classes of rejections: structural (invariants 1 to 6), device (7),
\* element type (8)
ClassOf(k) == IF k = 7 THEN "device" ELSE IF k = 8 THEN "type" ELSE "structural"
ClassOfMessage(msg) ==
    ClassOf(CHOOSE k \in 1..8 : msg \in Messages(k))

\* the kind of the error raised for a rejection of each class, on arguments
\* with that fault alone
KindRaised(class) ==
    LET d == Tensor(<<1, 1, 1>>, "cpu", "float16", 1, 0)
        r == Tensor(<<1>>, "cpu", "int16", 2, 0)
        c == Tensor(<<1>>, "cpu", "int16", 3, 0)
        o == Tensor(<<2>>, "cpu", "int32", 4, 0)
    IN  CASE class = "structural" ->
               ValidateMatrix(<<1, 1>>, [d EXCEPT !.shape = <<1, 1, 2>>], r, c, o).err
          [] class = "device" ->
               ValidateMatrix(<<1, 1>>, [d EXCEPT !.dev = "cuda"], r, c, o).err
          [] class = "type" ->
               ValidateMatrix(<<1, 1>>, [d EXCEPT !.dtype = "float32"], r, c, o).err

\* C7 as stated: a rejection is of a kind of its own class, so that
\* rejections of different classes differ in the kind of the error raised.
C7_DistinctKinds ==
    (last.op = "new" /\ last.err /= "none") =>
        \A class \in {"structural", "device", "type"} :
            class /= ClassOfMessage(last.msg) => last.err /= KindRaised(class)

\* C7, amended: every rejection (non-square blocks, non-divisible shape,
\* index length, offsets length, mixed devices, element types) raises the
\* same kind, ValueError, with the message of its own check: rejections of
\* different classes differ in the message, not in the kind.
C7_ValueErrorWithMessage ==
    (last.op = "new" /\ FirstViolated(inp) \in {1, 2, 5, 6, 7, 8}) =>
        /\ last.err = "ValueError"
        /\ ClassOfMessage(last.msg) = ClassOf(FirstViolated(inp))
        /\ last.msg \in Messages(FirstViolated(inp))
        /\ \A class \in {"structural", "device", "type"} :
              last.err = KindRaised(class)

\* a rejection for mixed devices alone
C7_Witness ==
    /\ last.op = "new"
    /\ last.msg = "device"
    /\ Inv8(inp)

\* C8: with square blocks of a side B dividing the shape, construction with
\* validation fails with the capacity error and builds no Matrix when
\* nnz * B * B > product(shape), whatever the index and offset arrays are,
\* and the capacity check does not reject when nnz * B * B <= product(shape).
C8_Capacity ==
    (last.op = "new" /\ Inv1(inp) /\ Inv2(inp)) =>
        LET B == BlockSide(inp.data)
            nnz == BlockCount(inp.data)
        IN  IF nnz * B * B > Prod(inp.shape)
            THEN /\ last.err = "ValueError"
                 /\ last.msg = "capacity"
                 /\ last.res = NoMat
                 /\ cur = NoMat
            ELSE last.msg /= "capacity"

\* two blocks of side MaxDim for a shape holding one, with index arrays that
\* are themselves malformed
C8_Witness ==
    /\ last.op = "new"
    /\ inp.shape = <<MaxDim, MaxDim>>
    /\ inp.data.shape = <<2, MaxDim, MaxDim>>
    /\ ~Inv4(inp) /\ ~Inv5(inp) /\ ~Inv6(inp)
    /\ last.msg = "capacity"

(***************************************************************************)
(* C11: validity is preserved by every operation.  Starting from a Matrix   *)
(* built by the validating constructor, after any sequence of t(),          *)
(* view(shape), clone() and to(device), an on-demand validate() does not    *)
(* raise: the logical shape and the four buffers of the resulting Matrix    *)
(* still satisfy invariants 1 to 8, a transposed non-square Matrix          *)
(* included.                                                                *)
(***************************************************************************)
C11_ValidityPreserved ==
    last.op = "validate" =>
        /\ last.err = "none"
        /\ FirstViolated(Input(last.pre.size, last.pre.data,
                               last.pre.row_indices, last.pre.column_indices,
                               last.pre.offsets)) = 0

====
